---------------------------- MODULE Spec2Model ----------------------------
(***************************************************************************)
(* A model of comma/helpers.py: the location classifier (is_local,         *)
(* is_url), the line-terminator detector (detect_line_terminator) and the  *)
(* stream resolver (open_stream), with the filesystem, the HTTP client and *)
(* the archive reader as an environment that answers nondeterministically. *)
(*                                                                         *)
(* Text is a sequence of one-character strings.  A byte payload is         *)
(* identified by where it comes from (tag, idx), the offset of its first   *)
(* byte in that origin (off) and its length (len); a payload that is a ZIP *)
(* archive carries the list of its member names.                           *)
(***************************************************************************)
EXTENDS Integers, Sequences, FiniteSets, TLC

VARIABLES pc, op, arg, env, source, encoding, internal_name, local_path,
          zip, calls, opened, result

vars == <<pc, op, arg, env, source, encoding, internal_name, local_path,
          zip, calls, opened, result>>

---------------------------------------------------------------------------
(* Bounds of the model *)

\* longest literal text handed to open_stream
MaxTextLen == 3

\* longest sample handed to detect_line_terminator
MaxSampleLen == 4

\* largest number of members of an archive
MaxMembers == 3

---------------------------------------------------------------------------
(* Module constants of helpers.py *)

MAX_SAMPLE_CHUNKSIZE == 10000

URI_SCHEME_LOCAL == <<"f", "i", "l", "e">>

URI_SCHEMES_ACCEPTED == { <<"h", "t", "t", "p">>, <<"h", "t", "t", "p", "s">> }

CR == "\r"
LF == "\n"
CRLF == <<CR, LF>>

LINE_TERMINATORS == << CRLF, <<CR>>, <<LF>> >>

LINE_TERMINATOR_DEFAULT == <<LF>>

---------------------------------------------------------------------------
(* Text helpers: the str methods the code relies on *)

Min(a, b) == IF a < b THEN a ELSE b

\* s[i:] with a 1-based i
Drop(s, i) == SubSeq(s, i, Len(s))

\* s.startswith(p)
StartsWith(s, p) == Len(s) >= Len(p) /\ SubSeq(s, 1, Len(p)) = p

\* s[i:].startswith(p), 1-based i
MatchAt(s, p, i) == i + Len(p) - 1 <= Len(s) /\ SubSeq(s, i, i + Len(p) - 1) = p

\* p in s
Contains(s, p) == \E i \in 1..Len(s) : MatchAt(s, p, i)

\* str.count(p): the non-overlapping occurrences of p, scanning from the left
RECURSIVE CountFrom(_, _, _)
CountFrom(s, p, i) ==
    IF i > Len(s) THEN 0
    ELSE IF MatchAt(s, p, i) THEN 1 + CountFrom(s, p, i + Len(p))
    ELSE CountFrom(s, p, i + 1)

Count(s, p) == CountFrom(s, p, 1)

\* str.replace(old, new)
RECURSIVE ReplaceFrom(_, _, _, _)
ReplaceFrom(s, old, new, i) ==
    IF i > Len(s) THEN <<>>
    ELSE IF MatchAt(s, old, i) THEN new \o ReplaceFrom(s, old, new, i + Len(old))
    ELSE <<s[i]>> \o ReplaceFrom(s, old, new, i + 1)

Replace(s, old, new) == ReplaceFrom(s, old, new, 1)

\* str.lower() on the letters the model uses
LowerChar(c) ==
    CASE c = "C" -> "c" [] c = "S" -> "s" [] c = "V" -> "v"
      [] c = "H" -> "h" [] c = "T" -> "t" [] c = "P" -> "p"
      [] OTHER -> c

Lower(s) == [i \in 1..Len(s) |-> LowerChar(s[i])]

\* str.find / str.rfind of one character: 0 when absent
FirstIndex(s, c) ==
    IF \E i \in 1..Len(s) : s[i] = c
    THEN CHOOSE i \in 1..Len(s) : s[i] = c /\ \A j \in 1..(i - 1) : s[j] # c
    ELSE 0

LastIndex(s, c) ==
    IF \E i \in 1..Len(s) : s[i] = c
    THEN CHOOSE i \in 1..Len(s) : s[i] = c /\ \A j \in (i + 1)..Len(s) : s[j] # c
    ELSE 0

\* all texts over an alphabet up to a length
TextsUpTo(alphabet, n) == UNION { [1..k -> alphabet] : k \in 0..n }

---------------------------------------------------------------------------
(* detect_line_terminator *)

NoneSample == [none |-> TRUE, text |-> <<>>]
SomeText(t) == [none |-> FALSE, text |-> t]

\* Python's ordering of the three candidate strings, "\r\n" > "\r" > "\n"
TermOrd(t) == IF t = CRLF THEN 3 ELSE IF t = <<CR>> THEN 2 ELSE 1

\* the tuple (count, length, terminator) of one candidate
Option(sample, t) == <<Count(sample, t), Len(t), t>>

\* tuple comparison a > b as sorted(..., reverse=True) applies it
TupleGreater(a, b) ==
    \/ a[1] > b[1]
    \/ a[1] = b[1] /\ a[2] > b[2]
    \/ a[1] = b[1] /\ a[2] = b[2] /\ TermOrd(a[3]) > TermOrd(b[3])

\* ranked_options[0]
BestOption(sample) ==
    LET options == { Option(sample, LINE_TERMINATORS[i]) : i \in 1..3 }
    IN  CHOOSE o \in options : \A other \in options \ {o} : TupleGreater(o, other)

DetectNoZeroCheck(sample, default) ==
    LET dflt == IF default.none THEN LINE_TERMINATOR_DEFAULT ELSE default.text
    IN  IF sample.none THEN dflt ELSE BestOption(sample.text)[3]

detect_line_terminator(sample, default) ==
    LET dflt == IF default.none THEN LINE_TERMINATOR_DEFAULT ELSE default.text
    IN  IF sample.none THEN dflt
        ELSE LET best_option == BestOption(sample.text)
             IN  IF best_option[1] = 0 THEN dflt ELSE best_option[3]

---------------------------------------------------------------------------
(* urllib.parse.urlparse, os.path.expanduser, os.path.abspath,             *)
(* os.path.exists and os.path.splitext on the model's texts                *)

Letters == {"a", "b", "c", "d", "e", "f", "h", "i", "l", "n", "p", "s", "t",
            "v", "x", "B", "C", "H", "P", "S", "T", "V"}

SchemeChars == Letters \cup {".", "+", "-"}

\* urlsplit's scheme rule: the text before the first ":" when it starts with
\* a letter and holds scheme characters only; the scheme is lower-cased
HasScheme(url) ==
    LET i == FirstIndex(url, ":")
    IN  /\ i > 1
        /\ url[1] \in Letters
        /\ \A j \in 1..(i - 1) : url[j] \in SchemeChars

\* the end of the netloc of a text that starts with "//": _splitnetloc
NetlocEnd(rest) ==
    LET after == Drop(rest, 3)
        k == FirstIndex(after, "/")
    IN  IF k = 0 THEN Len(rest) ELSE k + 1

\* urlsplit first removes the carriage returns (and tabs and line feeds)
urlparse(location) ==
    LET url == Replace(location, <<CR>>, <<>>)
        i == FirstIndex(url, ":")
        scheme == IF HasScheme(url) THEN Lower(SubSeq(url, 1, i - 1)) ELSE <<>>
        rest == IF HasScheme(url) THEN Drop(url, i + 1) ELSE url
        slashes == StartsWith(rest, <<"/", "/">>)
    IN  [scheme |-> scheme,
         netloc |-> IF slashes THEN SubSeq(rest, 3, NetlocEnd(rest)) ELSE <<>>,
         path |-> IF slashes THEN Drop(rest, NetlocEnd(rest) + 1) ELSE rest]

HomeDir == <<"/", "r">>
WorkDir == <<"/", "w">>

\* os.path.expanduser for the current user ("~" or "~/...")
expanduser(path) ==
    IF path = <<"~">> \/ StartsWith(path, <<"~", "/">>)
    THEN HomeDir \o Drop(path, 2)
    ELSE path

\* os.path.abspath: join with the working directory, collapse "//"
abspath(path) ==
    LET joined == IF StartsWith(path, <<"/">>) THEN path
                  ELSE WorkDir \o <<"/">> \o path
    IN  Replace(joined, <<"/", "/">>, <<"/">>)

\* os.path.exists against the files fs of the environment
exists(path, fs) == path # <<>> /\ abspath(path) \in fs

\* os.path.splitext(name)[1]: from the last "." of the last path component,
\* unless that component has only dots before it
splitext_ext(name) ==
    LET sep == LastIndex(name, "/")
        dot == LastIndex(name, ".")
    IN  IF dot > sep /\ \E j \in (sep + 1)..(dot - 1) : name[j] # "."
        THEN Drop(name, dot)
        ELSE <<>>

DotCsv == <<".", "c", "s", "v">>

---------------------------------------------------------------------------
(* is_local and is_url *)

\* the path candidates is_local tests, in the order it tests them; the last
\* one that exists wins, location itself before its expansion
is_local(location, fs) ==
    IF location = <<>> THEN NoneSample
    ELSE
    LET parsed_location == urlparse(location)
        parsed_path == IF parsed_location.netloc # <<>>
                       THEN parsed_location.netloc \o parsed_location.path
                       ELSE parsed_location.path
        path1 == IF parsed_location.scheme \in {URI_SCHEME_LOCAL, <<>>}
                    /\ exists(parsed_path, fs)
                 THEN SomeText(parsed_path) ELSE NoneSample
        path2 == IF parsed_location.scheme \in {URI_SCHEME_LOCAL, <<>>}
                    /\ exists(expanduser(parsed_path), fs)
                 THEN SomeText(expanduser(parsed_path)) ELSE path1
        path3 == IF exists(location, fs) THEN SomeText(location)
                 ELSE IF exists(expanduser(location), fs)
                 THEN SomeText(expanduser(location))
                 ELSE path2
    IN  IF path3.none THEN NoneSample ELSE SomeText(abspath(path3.text))

\* every file is_local may look for when given location
PathCandidates(location) ==
    LET parsed_location == urlparse(location)
        parsed_path == parsed_location.netloc \o parsed_location.path
        texts == {location, expanduser(location), parsed_path,
                  expanduser(parsed_path)} \ {<<>>}
    IN  { abspath(t) : t \in texts }

\* is_url up to its HEAD request: "True" or "False" when it answers without
\* one, "HEAD" when it goes on to requests.head
IsUrlBeforeRequest(location, norequest, have_requests) ==
    LET parsed_location == urlparse(location)
    IN  IF location = <<>> THEN "False"
        ELSE IF parsed_location.scheme = <<>> \/ parsed_location.netloc = <<>>
        THEN "False"
        ELSE IF parsed_location.scheme = URI_SCHEME_LOCAL THEN "False"
        ELSE IF norequest \/ ~have_requests
        THEN IF parsed_location.scheme \in URI_SCHEMES_ACCEPTED
             THEN "True" ELSE "False"
        ELSE "HEAD"

\* what requests.head can do: a response that is ok or not or a failure to
\* connect for a scheme requests has an adapter for, InvalidSchema for any
\* other scheme
HeadOutcomes(location) ==
    IF urlparse(location).scheme \in URI_SCHEMES_ACCEPTED
    THEN {"ok", "not ok", "ConnectionError"}
    ELSE {"InvalidSchema"}

IsUrlAfterRequest(outcome) == outcome = "ok"

---------------------------------------------------------------------------
(* Byte and text payloads, archives, streams *)

Payload(tag, len) ==
    [zip |-> FALSE, tag |-> tag, idx |-> 0, off |-> 0, len |-> len,
     names |-> <<>>, chars |-> <<>>]

\* the characters of an in-memory text
TextPayload(chars) ==
    [zip |-> FALSE, tag |-> "str", idx |-> 0, off |-> 0, len |-> Len(chars),
     names |-> <<>>, chars |-> chars]

\* a ZIP file with these member names (an end record of 22 bytes at least)
ArchivePayload(names) ==
    [zip |-> TRUE, tag |-> "archive", idx |-> 0, off |-> 0,
     len |-> 22 + Len(names), names |-> names, chars |-> <<>>]

\* the size of the i-th member of the model's archives: the first is longer
\* than a sample, the others shorter
MemberLen(i) == IF i = 1 THEN MAX_SAMPLE_CHUNKSIZE + 1 ELSE i - 1

\* ZipFile.read(name): the bytes of the (last) member of that name
ZipRead(archive, name) ==
    LET i == CHOOSE k \in 1..Len(archive.names) :
                 /\ archive.names[k] = name
                 /\ \A j \in (k + 1)..Len(archive.names) : archive.names[j] # name
    IN  [zip |-> FALSE, tag |-> "member", idx |-> i, off |-> 0,
         len |-> MemberLen(i), names |-> <<>>, chars |-> <<>>]

\* what read() returns from position pos: the rest of the payload
Rest(payload, pos) ==
    [payload EXCEPT !.off = @ + pos, !.len = @ - pos,
                    !.chars = Drop(@, pos + 1),
                    !.zip = @ /\ pos = 0]

Stream(binary, seekable, pos, content, origin) ==
    [binary |-> binary, seekable |-> seekable, pos |-> pos,
     content |-> content, origin |-> origin, wrapped |-> FALSE,
     name |-> NoneSample]

NullStream == Stream(FALSE, FALSE, 0, Payload("null", 0), "null")

\* io.BytesIO(data)
BytesIO(data) == Stream(TRUE, TRUE, 0, data, "BytesIO")

\* io.StringIO(initial_value, newline): the initial value is written to the
\* buffer, and a write translates every "\n" to newline when newline starts
\* with "\r"; reading with a newline other than None translates nothing
StringIO(initial_value, newline) ==
    LET written == IF newline[1] = CR
                   THEN TextPayload(Replace(initial_value.chars, <<LF>>, newline))
                   ELSE initial_value
    IN  Stream(FALSE, TRUE, 0, written, "StringIO")

\* stream.read(): everything from the read position on
ReadAll(stream) == Rest(stream.content, stream.pos)

\* the position after seek(0) and read(n)
SeekZeroRead(stream, n) == Min(stream.content.len, n)

---------------------------------------------------------------------------
(* The archive policy of open_stream *)

\* os.path.splitext(name)[1].lower() == ".csv"
IsCsvName(name) == Lower(splitext_ext(name)) = DotCsv

\* count_csv after the loop over names
CountCsv(names) == Cardinality({ i \in 1..Len(names) : IsCsvName(names[i]) })

CsvFilenameFirst(names) ==
    IF CountCsv(names) = 0 THEN NoneSample ELSE SomeText(names[1])

\* csv_filename after the loop over names: the last name counted
CsvFilename(names) ==
    IF CountCsv(names) = 0 THEN NoneSample
    ELSE SomeText(names[CHOOSE i \in 1..Len(names) :
                            /\ IsCsvName(names[i])
                            /\ \A j \in (i + 1)..Len(names) : ~IsCsvName(names[j])])

ZipBranchAnyCsv(count_total, count_csv) ==
    IF count_total = 1 THEN "sole"
    ELSE IF count_total > 1 /\ count_csv >= 1 THEN "csv"
    ELSE IF count_total = 0 THEN "empty"
    ELSE "ambiguous"

\* the if / elif chain on count_total and count_csv
ZipBranch(count_total, count_csv) ==
    IF count_total = 1 THEN "sole"
    ELSE IF count_total > 1 /\ count_csv = 1 THEN "csv"
    ELSE IF count_total = 0 THEN "empty"
    ELSE "ambiguous"

NoZip ==
    [detected |-> FALSE, names |-> <<>>, count_total |-> 0, count_csv |-> 0,
     csv_filename |-> NoneSample, branch |-> "none", data |-> Payload("null", 0)]

---------------------------------------------------------------------------
(* The inputs and the environment *)

Encodings == {"None", "utf-8"}

\* single-line strings that may name a file or a URL
Locations ==
    { <<"h", "t", "t", "p", ":", "/", "/", "h", "/", "p">>,
      <<"H", "T", "T", "P", "S", ":", "/", "/", "h">>,
      <<"f", "t", "p", ":", "/", "/", "h">>,
      <<"f", "i", "l", "e", ":", "/", "/", "d", "/", "p">>,
      <<"h", "t", "t", "p", ":", "/", "p">>,
      <<"~", "/", "p">>,
      <<"/", "p">> }

\* literal texts: every text of carriage returns, line feeds and a letter
LiteralTexts == TextsUpTo({CR, LF, "a"}, MaxTextLen)

\* samples of detect_line_terminator
Samples == TextsUpTo({CR, LF, "a"}, MaxSampleLen)

\* member names of archives
MemberNames ==
    { <<"a", ".", "c", "s", "v">>,
      <<"B", ".", "C", "S", "V">>,
      <<"x", ".", "t", "x", "t">>,
      <<".", "c", "s", "v">> }

Archives == { ArchivePayload(names) : names \in TextsUpTo(MemberNames, MaxMembers) }

PlainPayloads(tag) ==
    { Payload(tag, n) : n \in {0, 1, MAX_SAMPLE_CHUNKSIZE, MAX_SAMPLE_CHUNKSIZE + 1} }

BytePayloads(tag) == PlainPayloads(tag) \cup Archives

NoneSource == [kind |-> "None"]
OtherSource == [kind |-> "other"]
StrSource(chars) == [kind |-> "str", chars |-> chars]
BytesSource(content) == [kind |-> "bytes", content |-> content]
StreamSource(stream) == [kind |-> "stream", stream |-> stream]

\* streams the caller has open: text or binary, seekable or not, possibly
\* read from already (an archive is handed over unread)
CallerStreams ==
    { Stream(TRUE, seekable, pos, content, "caller") :
        seekable \in BOOLEAN, pos \in {0, 1}, content \in BytePayloads("bytes") }
    \cup
    { Stream(FALSE, seekable, pos, content, "caller") :
        seekable \in BOOLEAN, pos \in {0, 1}, content \in PlainPayloads("text") }

Sources ==
    {NoneSource, OtherSource}
    \cup { StrSource(t) : t \in LiteralTexts \cup Locations }
    \cup { BytesSource(c) : c \in BytePayloads("bytes") }
    \cup { StreamSource(st) : st \in
             { x \in CallerStreams : x.pos <= x.content.len
                                     /\ (x.content.zip => x.pos = 0) } }

IsSingleLine(src) == src.kind = "str" /\ ~Contains(src.chars, <<LF>>)

\* the environment of a call: the files that exist and whether the requests
\* package is installed; both matter to single-line strings only
Envs(src, norequest) ==
    IF IsSingleLine(src)
    THEN [fs : SUBSET PathCandidates(src.chars),
          requests : IF norequest THEN {TRUE} ELSE BOOLEAN]
    ELSE { [fs |-> {}, requests |-> TRUE] }

\* the outcome of a call
Result(kind) ==
    [kind |-> kind, stream |-> NullStream, error |-> "", detail |-> <<>>,
     bool |-> FALSE, text |-> <<>>]

Pending == Result("pending")

---------------------------------------------------------------------------
(* The state machine *)

Init ==
    /\ pc = "idle"
    /\ op = "none"
    /\ arg = [source |-> NoneSource]
    /\ env = [fs |-> {}, requests |-> TRUE]
    /\ source = NoneSource
    /\ encoding = "None"
    /\ internal_name = NoneSample
    /\ local_path = NoneSample
    /\ zip = NoZip
    /\ calls = <<>>
    /\ opened = {}
    /\ result = Pending

\* the call ends with this outcome
Finish(outcome) ==
    /\ pc' = "done"
    /\ result' = outcome

ReturnNone == Finish(Result("None"))

ReturnStream(stream) == Finish([Result("stream") EXCEPT !.stream = stream])

Raise(error, detail) ==
    Finish([Result("fault") EXCEPT !.error = error, !.detail = detail])

\* detect_line_terminator(sample, default), a pure function
CallDetectLineTerminator ==
    /\ pc = "idle"
    /\ \E sample \in {NoneSample} \cup { SomeText(t) : t \in Samples },
          default \in {NoneSample, SomeText(<<";">>), SomeText(CRLF)} :
        /\ op' = "detect_line_terminator"
        /\ arg' = [sample |-> sample, default |-> default]
        /\ Finish([Result("terminator") EXCEPT
                      !.text = detect_line_terminator(sample, default)])
    /\ UNCHANGED <<env, source, encoding, internal_name, local_path, zip,
                   calls, opened>>

\* is_url(location, no_request) called on its own
CallIsUrl ==
    /\ pc = "idle"
    /\ \E location \in Locations \cup {<<>>}, norequest \in BOOLEAN,
          requests \in BOOLEAN :
        /\ op' = "is_url"
        /\ arg' = [source |-> StrSource(location), no_request |-> norequest]
        /\ env' = [fs |-> {}, requests |-> requests]
        /\ source' = StrSource(location)
    /\ pc' = "is_url"
    /\ UNCHANGED <<encoding, internal_name, local_path, zip, calls, opened,
                   result>>

\* open_stream(source, encoding, no_request) is entered
CallOpenStream ==
    /\ pc = "idle"
    /\ \E src \in Sources, enc \in Encodings, norequest \in BOOLEAN :
        \E e \in Envs(src, norequest) :
            /\ op' = "open_stream"
            /\ arg' = [source |-> src, encoding |-> enc, no_request |-> norequest]
            /\ env' = e
            /\ source' = src
            /\ encoding' = enc
    /\ pc' = "start"
    /\ UNCHANGED <<internal_name, local_path, zip, calls, opened, result>>

\* open_stream, lines 262-280: None, and the multi-line literal text
Start ==
    /\ pc = "start"
    /\ IF source.kind = "None"
       THEN ReturnNone /\ UNCHANGED internal_name
       ELSE IF source.kind = "str" /\ Contains(source.chars, <<LF>>)
       THEN /\ ReturnStream(StringIO(TextPayload(source.chars),
                              IF Contains(source.chars, CRLF) THEN CRLF ELSE <<LF>>))
            /\ UNCHANGED internal_name
       ELSE IF source.kind = "str"
       THEN /\ internal_name' = SomeText(source.chars)
            /\ pc' = "is_local"
            /\ UNCHANGED result
       ELSE /\ pc' = "wrap"
            /\ UNCHANGED <<internal_name, result>>
    /\ UNCHANGED <<op, arg, env, source, encoding, local_path, zip, calls, opened>>

AfterIsLocalIgnoringNoRequest(path, norequest) ==
    IF ~path.none THEN "open" ELSE "is_url"

AfterIsLocalUrlFirst(path, norequest) ==
    IF ~norequest THEN "is_url"
    ELSE IF ~path.none THEN "open"
    ELSE "return None"

\* the if / elif / else chain of lines 284-304 up to the call of is_url
AfterIsLocal(path, norequest) ==
    IF ~path.none THEN "open"
    ELSE IF ~norequest THEN "is_url"
    ELSE "return None"

\* open_stream, lines 283-288 and 303-304: is_local, then open(path, "rb")
IsLocalStep ==
    /\ pc = "is_local"
    /\ LET path == is_local(source.chars, env.fs)
           next == AfterIsLocal(path, arg.no_request)
       IN  /\ local_path' = path
           /\ IF next = "open"
              THEN /\ \E content \in BytePayloads("file") :
                         source' = StreamSource(Stream(TRUE, TRUE, 0, content, "file"))
                   /\ calls' = calls \o <<"is_local", "open rb">>
                   /\ opened' = opened \cup {"file"}
                   /\ pc' = "wrap"
                   /\ UNCHANGED result
              ELSE IF next = "is_url"
              THEN /\ calls' = Append(calls, "is_local")
                   /\ pc' = "is_url"
                   /\ UNCHANGED <<source, opened, result>>
              ELSE /\ calls' = Append(calls, "is_local")
                   /\ ReturnNone
                   /\ UNCHANGED <<source, opened>>
    /\ UNCHANGED <<op, arg, env, encoding, internal_name, zip>>

\* is_url, lines 153-187: the answer without a request, or on to the HEAD
\* request; open_stream calls is_url without no_request
IsUrlStep ==
    /\ pc = "is_url"
    /\ LET norequest == IF op = "is_url" THEN arg.no_request ELSE FALSE
           answer == IsUrlBeforeRequest(source.chars, norequest, env.requests)
       IN  IF answer = "HEAD"
           THEN pc' = "head" /\ UNCHANGED result
           ELSE IF op = "is_url"
           THEN Finish([Result("bool") EXCEPT !.bool = (answer = "True")])
           ELSE IF answer = "True"
           THEN pc' = "get" /\ UNCHANGED result
           ELSE ReturnNone
    /\ calls' = Append(calls, "is_url")
    /\ UNCHANGED <<op, arg, env, source, encoding, internal_name, local_path,
                   zip, opened>>

\* is_url, lines 189-206: requests.head and what is_url makes of it
HeadStep ==
    /\ pc = "head"
    /\ \E outcome \in HeadOutcomes(source.chars) :
         IF op = "is_url"
         THEN Finish([Result("bool") EXCEPT !.bool = IsUrlAfterRequest(outcome)])
         ELSE IF IsUrlAfterRequest(outcome)
         THEN pc' = "get" /\ UNCHANGED result
         ELSE ReturnNone
    /\ calls' = Append(calls, "HEAD")
    /\ UNCHANGED <<op, arg, env, source, encoding, internal_name, local_path,
                   zip, opened>>

\* open_stream, lines 290-301: requests.get and the wrapping of the body.
\* Without the requests package requests is None and has no get; and
\* io.TextIOWrapper does not accept the bytes of response.content
GetStep ==
    /\ pc = "get"
    /\ IF ~env.requests
       THEN /\ Raise("AttributeError", <<>>)
            /\ UNCHANGED <<source, encoding, calls>>
       ELSE /\ calls' = Append(calls, "GET")
            /\ \E ok \in BOOLEAN, declared \in Encodings,
                  content \in BytePayloads("body") :
                 IF ~ok
                 THEN ReturnNone /\ UNCHANGED <<source, encoding>>
                 ELSE /\ encoding' = IF encoding = "None" THEN declared ELSE encoding
                      /\ IF encoding' # "None"
                         THEN Raise("AttributeError", <<>>) /\ UNCHANGED source
                         ELSE /\ source' = StreamSource(BytesIO(content))
                              /\ pc' = "wrap"
                              /\ UNCHANGED result
    /\ UNCHANGED <<op, arg, env, internal_name, local_path, zip, opened>>

\* open_stream, lines 306-324: bytes become a BytesIO, a stream that cannot
\* seek is read to its end into a StringIO or a BytesIO
WrapStep ==
    /\ pc = "wrap"
    /\ IF source.kind = "bytes"
       THEN source' = StreamSource(BytesIO(source.content)) /\ pc' = "unzip"
       ELSE IF source.kind = "stream" /\ ~source.stream.seekable
       THEN /\ source' = StreamSource(
                   IF source.stream.binary
                   THEN BytesIO(ReadAll(source.stream))
                   ELSE StringIO(ReadAll(source.stream), <<LF>>))
            /\ pc' = "unzip"
       ELSE IF source.kind = "stream"
       THEN pc' = "unzip" /\ UNCHANGED source
       ELSE pc' = "sample" /\ UNCHANGED source
    /\ UNCHANGED <<op, arg, env, encoding, internal_name, local_path, zip,
                   calls, opened, result>>

\* zipfile.is_zipfile(source): a binary stream whose bytes are an archive
is_zipfile(stream) == stream.binary /\ stream.content.zip

\* open_stream, lines 326-363: the archive is opened, its names are counted,
\* and one member is read or a ValueError is raised; the ZipFile and the
\* stream it reads from are not closed
UnzipStep ==
    /\ pc = "unzip"
    /\ IF is_zipfile(source.stream)
       THEN LET names == source.stream.content.names
                count_total == Len(names)
                count_csv == CountCsv(names)
                csv_filename == CsvFilename(names)
                branch == ZipBranch(count_total, count_csv)
                data == IF branch = "sole"
                        THEN ZipRead(source.stream.content, names[1])
                        ELSE IF branch = "csv"
                        THEN ZipRead(source.stream.content, csv_filename.text)
                        ELSE Payload("null", 0)
            IN  /\ opened' = opened \cup {"zip"}
                /\ zip' = [detected |-> TRUE, names |-> names,
                           count_total |-> count_total, count_csv |-> count_csv,
                           csv_filename |-> csv_filename, branch |-> branch,
                           data |-> data]
                /\ IF branch \in {"sole", "csv"}
                   THEN /\ source' = StreamSource(BytesIO(data))
                        /\ pc' = "sample"
                        /\ UNCHANGED result
                   ELSE IF branch = "empty"
                   THEN Raise("ValueError: empty or unknown issues", <<>>)
                        /\ UNCHANGED source
                   ELSE Raise("ValueError: ambiguous", names)
                        /\ UNCHANGED source
       ELSE /\ pc' = "sample"
            /\ UNCHANGED <<source, zip, opened, result>>
    /\ UNCHANGED <<op, arg, env, encoding, internal_name, local_path, calls>>

\* comma.extras.detect_encoding(sample): some usable encoding name
DetectedEncodings == {"utf-8", "ascii"}

\* source.buffer.name = internal_name succeeds on the BytesIO under a
\* TextIOWrapper; an open file refuses it and a StringIO has no buffer
NameAttached(stream, name) ==
    IF ~name.none /\ stream.wrapped /\ stream.origin = "BytesIO"
    THEN name ELSE stream.name

\* open_stream, lines 365-386: what is no stream gives None; seek(0), a
\* sample of MAX_SAMPLE_CHUNKSIZE is read, bytes are wrapped as text; the
\* stream is returned where the sample ended
SampleStep ==
    /\ pc = "sample"
    /\ IF source.kind # "stream"
       THEN ReturnNone /\ UNCHANGED <<source, encoding>>
       ELSE LET sampled == [source.stream EXCEPT
                               !.pos = SeekZeroRead(source.stream, MAX_SAMPLE_CHUNKSIZE)]
            IN  IF sampled.binary
                THEN \E detected \in DetectedEncodings :
                       LET wrapper == [sampled EXCEPT !.binary = FALSE,
                                                      !.wrapped = TRUE]
                           named == [wrapper EXCEPT
                                        !.name = NameAttached(wrapper, internal_name)]
                       IN  /\ encoding' = IF encoding = "None" THEN detected
                                          ELSE encoding
                           /\ source' = StreamSource(named)
                           /\ ReturnStream(named)
                ELSE /\ source' = StreamSource(sampled)
                     /\ ReturnStream(sampled)
                     /\ UNCHANGED encoding
    /\ UNCHANGED <<op, arg, env, internal_name, local_path, zip, calls, opened>>

\* the caller takes the outcome; the next call starts afresh
Return ==
    /\ pc = "done"
    /\ pc' = "idle"
    /\ op' = "none"
    /\ arg' = [source |-> NoneSource]
    /\ env' = [fs |-> {}, requests |-> TRUE]
    /\ source' = NoneSource
    /\ encoding' = "None"
    /\ internal_name' = NoneSample
    /\ local_path' = NoneSample
    /\ zip' = NoZip
    /\ calls' = <<>>
    /\ opened' = {}
    /\ result' = Pending

Next ==
    \/ CallDetectLineTerminator
    \/ CallIsUrl
    \/ CallOpenStream
    \/ Start
    \/ IsLocalStep
    \/ IsUrlStep
    \/ HeadStep
    \/ GetStep
    \/ WrapStep
    \/ UnzipStep
    \/ SampleStep
    \/ Return

Spec == Init /\ [][Next]_vars

---------------------------------------------------------------------------
(* Properties of open_stream, is_url and detect_line_terminator *)

OpenStreamDone == pc = "done" /\ op = "open_stream"

NetworkCalls == {"HEAD", "GET"}

\* the bytes of the i-th member of an archive
MemberBytes(i) ==
    [zip |-> FALSE, tag |-> "member", idx |-> i, off |-> 0,
     len |-> MemberLen(i), names |-> <<>>, chars |-> <<>>]

\* a name with the extension ".csv" in any case: it ends in ".csv" and its
\* last path component has more than dots before that
HasCsvExtension(name) ==
    /\ Len(name) > 4
    /\ Lower(SubSeq(name, Len(name) - 3, Len(name))) = <<".", "c", "s", "v">>
    /\ \E j \in 1..(Len(name) - 4) :
         /\ name[j] \notin {".", "/"}
         /\ \A k \in j..(Len(name) - 4) : name[k] # "/"

CsvMembers(names) == { i \in 1..Len(names) : HasCsvExtension(names[i]) }

\* C1: whenever open_stream returns a stream, the stream's read position is
\* offset 0.
C1_ReturnedStreamAtStart ==
    (OpenStreamDone /\ result.kind = "stream") => result.stream.pos = 0

\* C2: with the requests package installed, open_stream ends with a stream,
\* with None, or with the empty-archive or the ambiguous-archive fault, and
\* with no other fault.
C2_OnlyArchiveFaults ==
    (OpenStreamDone /\ env.requests) =>
        \/ result.kind \in {"stream", "None"}
        \/ /\ result.kind = "fault"
           /\ result.error \in {"ValueError: empty or unknown issues",
                                "ValueError: ambiguous"}

\* C3: when an archive was detected and a member extracted, the bytes handed
\* on are those of the sole member of a one-member archive, and those of the
\* one member with a ".csv" extension (any case, any place in the list) of
\* an archive of several members.
C3_ExtractedMember ==
    (op = "open_stream" /\ zip.detected /\ pc \in {"sample", "done"}
       /\ result.kind # "fault") =>
        LET names == zip.names
            handed == IF pc = "done" THEN result.stream.content
                      ELSE source.stream.content
        IN  /\ Len(names) = 1 => handed = MemberBytes(1)
            /\ Len(names) > 1 =>
                 \E i \in CsvMembers(names) :
                    /\ CsvMembers(names) = {i}
                    /\ handed = MemberBytes(i)

C3_Witness ==
    /\ OpenStreamDone
    /\ zip.detected
    /\ result.kind = "stream"
    /\ Len(zip.names) = 3
    /\ zip.names[2] = <<"B", ".", "C", "S", "V">>
    /\ result.stream.content = MemberBytes(2)

\* C4: for a detected archive open_stream raises if and only if the archive
\* has no member, or has several of which not exactly one has a ".csv"
\* extension; the first is the empty-archive fault, the second the ambiguity
\* fault with every member name as its detail; and no stream is returned.
C4_ArchiveFaults ==
    (OpenStreamDone /\ zip.detected) =>
        LET names == zip.names
            empty == Len(names) = 0
            ambiguous == Len(names) > 1 /\ Cardinality(CsvMembers(names)) # 1
        IN  /\ result.kind = "fault" <=> (empty \/ ambiguous)
            /\ result.kind \in {"fault", "stream"}
            /\ empty => result.error = "ValueError: empty or unknown issues"
            /\ ambiguous => /\ result.error = "ValueError: ambiguous"
                            /\ result.detail = names

C4_Witness ==
    /\ OpenStreamDone
    /\ zip.detected
    /\ Len(zip.names) = 3
    /\ Cardinality(CsvMembers(zip.names)) = 2
    /\ result.kind = "fault"
    /\ result.detail = zip.names

\* the occurrences of a terminator in a text, by position
Occurrences(text, t) == Cardinality({ i \in 1..Len(text) : MatchAt(text, t, i) })

\* (count, length) of a is at most that of b
PairAtMost(text, a, b) ==
    \/ Occurrences(text, a) < Occurrences(text, b)
    \/ Occurrences(text, a) = Occurrences(text, b) /\ Len(a) <= Len(b)

\* a text of one or more "\r\n" and nothing else
OnlyCRLF(text) ==
    /\ Len(text) >= 2
    /\ Len(text) % 2 = 0
    /\ \A i \in 1..Len(text) : text[i] = IF i % 2 = 1 THEN CR ELSE LF

\* C5: detect_line_terminator returns the default ("\n" when none is given)
\* for no sample and for a sample without "\r" and "\n"; otherwise a
\* candidate that occurs in the sample and whose (count, length) is
\* maximal; a sample of "\r\n" only yields "\r\n".
C5_DetectLineTerminator ==
    (pc = "done" /\ op = "detect_line_terminator") =>
        LET text == arg.sample.text
            default == IF arg.default.none THEN <<LF>> ELSE arg.default.text
            candidates == { CRLF, <<CR>>, <<LF>> }
        IN  /\ result.kind = "terminator"
            /\ IF arg.sample.none \/ \A i \in 1..Len(text) : text[i] \notin {CR, LF}
               THEN result.text = default
               ELSE /\ result.text \in candidates
                    /\ Occurrences(text, result.text) > 0
                    /\ \A c \in candidates : PairAtMost(text, c, result.text)
            /\ (~arg.sample.none /\ OnlyCRLF(text)) => result.text = CRLF

C5_Witness ==
    /\ pc = "done"
    /\ op = "detect_line_terminator"
    /\ arg.sample = SomeText(<<CR, LF, CR, LF>>)
    /\ arg.default = SomeText(<<";">>)
    /\ result.text = CRLF

\* None, the empty string, the empty byte blob
IsEmptySource(src) ==
    \/ src.kind = "None"
    \/ src.kind = "str" /\ src.chars = <<>>
    \/ src.kind = "bytes" /\ src.content.len = 0

\* C6: for a source that is None or empty open_stream returns None.
C6_EmptySourceNotResolved ==
    (OpenStreamDone /\ IsEmptySource(arg.source)) => result.kind = "None"

\* C7: for a string that contains "\r\n", reading the whole of the stream
\* open_stream returns gives the string back.
C7_LiteralTextRoundTrip ==
    (OpenStreamDone /\ arg.source.kind = "str"
       /\ Contains(arg.source.chars, CRLF)) =>
        /\ result.kind = "stream"
        /\ ReadAll(result.stream).chars = arg.source.chars

\* C8: in a call of open_stream, is_url, HEAD and GET happen only after
\* is_local has answered that the string is no path; a string that is a path
\* is opened in binary mode and nothing else is called; a single-line string
\* that is neither a path nor a URL gives None.
C8_PathBeforeUrl ==
    op = "open_stream" =>
        /\ \A i \in 1..Len(calls) :
              calls[i] \in NetworkCalls \cup {"is_url"} =>
                 /\ local_path.none
                 /\ \E j \in 1..(i - 1) : calls[j] = "is_local"
        /\ ~local_path.none => calls = <<"is_local", "open rb">>
        /\ (pc = "done" /\ IsSingleLine(arg.source) /\ local_path.none
              /\ "GET" \notin { calls[i] : i \in 1..Len(calls) }
              /\ result.kind # "fault") => result.kind = "None"

C8_Witness ==
    /\ OpenStreamDone
    /\ ~arg.no_request
    /\ ~local_path.none
    /\ IsUrlBeforeRequest(arg.source.chars, TRUE, TRUE) = "True"
    /\ result.kind = "stream"
    /\ result.stream.origin = "file"

\* C9: when open_stream ends, the archive reader is closed, and a file the
\* call opened is open only as the stream handed back to the caller.
C9_ResourcesReleased ==
    OpenStreamDone =>
        /\ "zip" \notin opened
        /\ "file" \in opened =>
              (result.kind = "stream" /\ result.stream.origin = "file")

\* C10: with no_request set neither open_stream nor is_url issues a HEAD or
\* a GET; open_stream then gives None for a single-line string that is no
\* existing path; and is_url accepts exactly the strings whose scheme is
\* http or https and whose host is not empty.
C10_NoRequest ==
    (op \in {"open_stream", "is_url"} /\ arg.no_request) =>
        /\ \A i \in 1..Len(calls) : calls[i] \notin NetworkCalls
        /\ (OpenStreamDone /\ IsSingleLine(arg.source) /\ local_path.none)
              => result.kind = "None"
        /\ (pc = "done" /\ op = "is_url") =>
              /\ result.kind = "bool"
              /\ result.bool <=>
                    /\ urlparse(arg.source.chars).scheme \in
                          { <<"h", "t", "t", "p">>, <<"h", "t", "t", "p", "s">> }
                    /\ urlparse(arg.source.chars).netloc # <<>>

C10_Witness ==
    /\ OpenStreamDone
    /\ arg.no_request
    /\ arg.source = StrSource(<<"h", "t", "t", "p", ":", "/", "/", "h", "/", "p">>)
    /\ local_path.none
    /\ calls = <<"is_local">>
    /\ result.kind = "None"

===========================================================================
